---- MODULE Spec2Model ----
(***************************************************************************)
(* CORE_ADE: the FastAPI backend of run_app_dynamic.py (the global          *)
(* schema_manager and the request handlers around it) and the Flask front   *)
(* end of app.py that forwards to it.                                       *)
(*                                                                          *)
(* The engine behind schema_manager (database_operations.                   *)
(* dynamic_schema_manager.DynamicSchemaManager) is not part of the sources  *)
(* at hand; its operations are modelled from the design document and are    *)
(* marked "engine" below.  The handlers are modelled from their code.       *)
(***************************************************************************)
EXTENDS Integers, Sequences, FiniteSets, TLC

VARIABLES
    booted,          \* create_fastapi_app has run
    schema_manager,  \* the module-level global of run_app_dynamic.py
    pc,              \* per request slot: the handler's position
    req,             \* per request slot: the request being served
    began,           \* per request slot: what the handler saw at its "database loaded" check
    resp,            \* per request slot: the response sent
    rows,            \* the rows of the table searched, in row-identity order
    engine_args,     \* the page window last handed to schema_manager.search
    answer,          \* the last search or export request and its response
    pager,           \* a caller reading one result page after page
    fts5,            \* the index engine (FTS5) is available in this build
    fts_index,       \* the text indexes there are: pairs <<database file, table>>
    call,            \* the last catalog request and its response
    prev_call,       \* the catalog request before it
    posit,           \* is_posit_connect: the backend runs in a thread, not a subprocess
    phase,           \* the front end's main program: main, serving, unwinding, exited, blocked
    mode,            \* start_backend: idle, or probing /health
    probes,          \* start_backend: health probes made in this call
    BACKEND_PROCESS, \* app.py: the tracked child process
    backend_thread,  \* backend_runner.py: the tracked thread (_backend_thread)
    child,           \* the backends started so far: spawned, starting, serving, exited
    answered,        \* the backends whose /health has answered a probe with 200
    ret,             \* the last call of start_backend or stop_backend and its result
    stop_ran,        \* stop_backend has run on the way out
    backend_ready,   \* backend_runner.py: the flag _backend_ready
    now,             \* int(time.time()): the clock in seconds
    disk,            \* the files of the uploads directory
    CURRENT_DB_FILE, \* app.py: the uploaded file that is loaded
    backend_db,      \* the database the backend has open, as the uploads leave it
    upload,          \* the last upload request and its response
    created          \* the last /create_database_from_folder request and its response

svc_vars == <<booted, schema_manager, pc, req, began, resp>>
eng_vars == <<rows, engine_args, answer, pager>>
cat_vars == <<fts5, fts_index, call, prev_call>>
run_vars == <<posit, phase, mode, probes, BACKEND_PROCESS, backend_thread, child,
              answered, ret, stop_ran, backend_ready>>
up_vars == <<now, disk, CURRENT_DB_FILE, backend_db, upload, created>>
front_vars == <<run_vars, up_vars>>
ops_vars == <<cat_vars, front_vars>>
vars == <<booted, schema_manager, pc, req, began, resp, rows, engine_args, answer, pager,
          fts5, fts_index, call, prev_call,
          posit, phase, mode, probes, BACKEND_PROCESS, backend_thread, child,
          answered, ret, stop_ran, backend_ready,
          now, disk, CURRENT_DB_FILE, backend_db, upload, created>>

\* ------------------------------------------------------------------ bounds
\* Number of requests that can be in flight at the same time.
NReq == 2

Req == 1..NReq

\* Python's None where a string is expected (a missing dbPath).
None == "None"

\* An optional object (the global schema_manager, a slot's response) is a
\* sequence of length at most one: <<>> is Python's None, <<x>> the object x.
Nothing == <<>>
Some(x) == <<x>>
IsNone(o) == o = <<>>
The(o) == o[1]

\* --------------------------------------------------------------- the disk
\* Database paths a caller may name.  "gone.db" does not exist; "bad.db"
\* exists but is not a database the engine can open.
DbPaths == {"a.db", "b.db", "bad.db", "gone.db"}

\* os.path.exists(db_path)
path_exists(p) == p \in {"a.db", "b.db", "bad.db"}

\* engine: the file can be opened as a database
openable(p) == p \in {"a.db", "b.db"}

\* engine: the tables found in a database file
tables_of(p) ==
    CASE p = "a.db" -> {"reports", "notes"}
      [] p = "b.db" -> {"reports"}
      [] OTHER -> {}

TableNames == {"reports", "notes"}

\* ------------------------------------------------- DynamicSchemaManager
\* DynamicSchemaManager(db_path): a manager that has not connected yet.
DynamicSchemaManager(p) == [db_path |-> p, connected |-> FALSE, tables |-> {}]

\* engine: connect() opens db_path and builds the catalog; returns success.
connect_ok(m) == openable(m.db_path)
connect(m) ==
    IF connect_ok(m)
    THEN [m EXCEPT !.connected = TRUE, !.tables = tables_of(m.db_path)]
    ELSE m

\* engine: switch_database(db_path) replaces the handle and rebuilds the
\* catalog in one step; on failure the previous database stays in effect.
switch_database_ok(m, p) == openable(p)
switch_database(m, p) ==
    IF switch_database_ok(m, p)
    THEN [db_path |-> p, connected |-> TRUE, tables |-> tables_of(p)]
    ELSE m

\* engine: get_schema_info() is served from the catalog cache.
get_schema_info(m) ==
    [tables |-> m.tables, total_tables |-> Cardinality(m.tables), fts_available |-> fts5]

\* ---------------------------------------------------------- request slots
SwitchArgs == DbPaths \cup {None}

\* The kinds of request: "switch" is POST /switch-database of the backend,
\* "api_switch" the Flask route POST /api/switch-database in front of it,
\* "search" GET /search/{table}, "export" GET /export/kml/{table}, "health"
\* GET /health.  A request is taken into its slot by the first step of its
\* handler that reads the global schema_manager, or that answers.
HealthRequest == [kind |-> "health", arg |-> None]

NoReq == [kind |-> None, arg |-> None]

\* A switch is between replacing the global (line 496) and the end of
\* connect() (line 497).
InSwitch(r) == pc[r] = "sw_connect"
SwitchInProgress == \E w \in Req : InSwitch(w)

ExportsRunning == Cardinality({e \in Req : pc[e] = "e_run"})

Reply(r, st, body) ==
    /\ pc' = [pc EXCEPT ![r] = "done"]
    /\ resp' = [resp EXCEPT ![r] = Some([status |-> st, body |-> body])]

\* No catalog request has been made; no database file holds a text index.
CatalogIdle ==
    /\ fts_index = {}
    /\ call = Nothing
    /\ prev_call = Nothing

\* ------------------------------------------------------------------ bounds
\* Most backends (child processes or threads) the front end starts.
MaxSpawns == 2

Backends == 1..MaxSpawns

\* The front end has installed its signal handlers and started nothing.
RunnerIdle ==
    /\ phase = "main"
    /\ mode = "idle"
    /\ probes = 0
    /\ BACKEND_PROCESS = Nothing
    /\ backend_thread = Nothing
    /\ child = <<>>
    /\ answered = {}
    /\ ret = Nothing
    /\ stop_ran = FALSE
    /\ backend_ready = FALSE

\* Seconds the clock can advance.
MaxTime == 1

\* Nothing has been uploaded.
UploadIdle ==
    /\ now = 0
    /\ disk = {}
    /\ CURRENT_DB_FILE = Nothing
    /\ backend_db = Nothing
    /\ upload = Nothing
    /\ created = Nothing

FrontIdle ==
    /\ posit = FALSE
    /\ RunnerIdle
    /\ UploadIdle

OpsIdle ==
    /\ fts5 = FALSE
    /\ CatalogIdle
    /\ FrontIdle

Init ==
    /\ OpsIdle
    /\ booted = FALSE
    /\ schema_manager = Nothing
    /\ pc = [r \in Req |-> "idle"]
    /\ req = [r \in Req |-> NoReq]
    /\ began = [r \in Req |-> Nothing]
    /\ resp = [r \in Req |-> Nothing]
    /\ rows = <<>>
    /\ engine_args = Nothing
    /\ answer = Nothing
    /\ pager = Nothing

\* create_fastapi_app(db_path): the startup of the backend.
create_fastapi_app(p) ==
    /\ ~booted
    /\ booted' = TRUE
    /\ schema_manager' =
          IF p # None /\ path_exists(p)
          THEN IF connect_ok(DynamicSchemaManager(p))
               THEN Some(connect(DynamicSchemaManager(p)))
               ELSE Nothing
          ELSE Nothing
    /\ UNCHANGED <<pc, req, began, resp>>
    /\ UNCHANGED <<eng_vars, ops_vars>>

\* A request arrives in a free slot.
Arrives(r, q) ==
    /\ booted
    /\ pc[r] = "idle"
    /\ req' = [req EXCEPT ![r] = q]

\* GET /health reaches its handler, which has not run yet.
Receive(r) ==
    /\ Arrives(r, HealthRequest)
    /\ pc' = [pc EXCEPT ![r] = "h_run"]
    /\ UNCHANGED <<booted, schema_manager, began, resp>>
    /\ UNCHANGED <<eng_vars, ops_vars>>

\* The caller has read the response; the slot is free again.
Retire(r) ==
    /\ pc[r] = "done"
    /\ pc' = [pc EXCEPT ![r] = "idle"]
    /\ req' = [req EXCEPT ![r] = NoReq]
    /\ began' = [began EXCEPT ![r] = Nothing]
    /\ resp' = [resp EXCEPT ![r] = Nothing]
    /\ UNCHANGED <<booted, schema_manager>>
    /\ UNCHANGED <<eng_vars, ops_vars>>

\* ------------------------------------------------------ POST /switch-database
\* "except Exception as e: raise HTTPException(status_code=500, ...)" (lines
\* 510-511): HTTPException is an Exception, so whatever status the try block
\* raised, the handler answers 500.
switch_except(raised) == 500

\* Line 492: "if schema_manager:" reads the global and chooses the branch.
switch_database_route_branch ==
    IF IsNone(schema_manager) THEN "sw_create" ELSE "sw_switch"

\* Mutant: the check forgets os.path.exists and only rejects a missing dbPath.
switch_database_route_check_noexists(r, p) ==
    /\ Arrives(r, [kind |-> "switch", arg |-> p])
    /\ IF p = None
       THEN Reply(r, switch_except(404), [success |-> FALSE, dbPath |-> p])
       ELSE /\ pc' = [pc EXCEPT ![r] = switch_database_route_branch]
            /\ UNCHANGED resp
    /\ UNCHANGED <<booted, schema_manager, began>>
    /\ UNCHANGED <<eng_vars, ops_vars>>

\* POST /switch-database with dbPath p, lines 486-492: the path check, and
\* the read of the global that follows it.  The check reads the request and
\* the file system only, so it is one step with that read.
switch_database_route_check(r, p) ==
    /\ Arrives(r, [kind |-> "switch", arg |-> p])
    /\ IF p = None \/ ~path_exists(p)
       THEN Reply(r, switch_except(404), [success |-> FALSE, dbPath |-> p])
       ELSE /\ pc' = [pc EXCEPT ![r] = switch_database_route_branch]
            /\ UNCHANGED resp
    /\ UNCHANGED <<booted, schema_manager, began>>
    /\ UNCHANGED <<eng_vars, ops_vars>>

\* The rest of the handler once success is known (lines 499-509).
switch_database_route_reply(r, success) ==
    IF success
    THEN Reply(r, 200, [success |-> TRUE, dbPath |-> req[r].arg])
    ELSE Reply(r, switch_except(500), [success |-> FALSE, dbPath |-> req[r].arg])

\* Line 493: success = schema_manager.switch_database(db_path).
switch_database_route_switch(r) ==
    /\ pc[r] = "sw_switch"
    /\ schema_manager' = Some(switch_database(The(schema_manager), req[r].arg))
    /\ switch_database_route_reply(r, switch_database_ok(The(schema_manager), req[r].arg))
    /\ UNCHANGED <<booted, req, began>>
    /\ UNCHANGED <<eng_vars, ops_vars>>

\* Line 496: schema_manager = DynamicSchemaManager(db_path).
switch_database_route_create(r) ==
    /\ pc[r] = "sw_create"
    /\ schema_manager' = Some(DynamicSchemaManager(req[r].arg))
    /\ pc' = [pc EXCEPT ![r] = "sw_connect"]
    /\ UNCHANGED <<booted, req, began, resp>>
    /\ UNCHANGED <<eng_vars, ops_vars>>

\* Line 497: success = schema_manager.connect(), on whatever object the
\* global names by now.
switch_database_route_connect(r) ==
    /\ pc[r] = "sw_connect"
    /\ schema_manager' = Some(connect(The(schema_manager)))
    /\ switch_database_route_reply(r, connect_ok(The(schema_manager)))
    /\ UNCHANGED <<booted, req, began>>
    /\ UNCHANGED <<eng_vars, ops_vars>>

\* Flask POST /api/switch-database (app.py lines 626-642): the route checks
\* the path itself and answers 404 without calling the backend; otherwise it
\* posts the path to the backend's /switch-database and passes the answer on
\* (200 as it is, anything else as 500; the backend answers a switch with
\* 200 or 500 only), so the slot goes on as the backend's request: the
\* backend's own check of the same path (lines 486-488) passes, and its
\* handler reads the global.
api_switch_database(r, p) ==
    /\ IF p = None \/ ~path_exists(p)
       THEN /\ Arrives(r, [kind |-> "api_switch", arg |-> p])
            /\ Reply(r, 404, [success |-> FALSE, dbPath |-> p])
       ELSE /\ Arrives(r, [kind |-> "switch", arg |-> p])
            /\ pc' = [pc EXCEPT ![r] = switch_database_route_branch]
            /\ UNCHANGED resp
    /\ UNCHANGED <<booted, schema_manager, began>>
    /\ UNCHANGED <<eng_vars, ops_vars>>

\* --------------------------------------------------- GET /search/{table_name}
\* "except Exception as e: raise HTTPException(status_code=500, ...)" (lines
\* 260-262, 325-326) also catches the handler's own HTTPException(400).
handler_except(raised) == 500

\* engine: search()/export_kmz() on the manager as it is at the call: an
\* error on a manager that never connected or on an unknown table, else a
\* result drawn from the database the manager has open.
engine_can_serve(m, t) == m.connected /\ t \in m.tables

\* The database a manager serves from: its db_path once connected.
active_db(m) == IF m.connected THEN m.db_path ELSE None

\* What is recorded of a handler that passed its "if not schema_manager"
\* check: the database that was active then (db), and later the database
\* the engine call was started on (used).
Seen(m) == [db |-> active_db(m), used |-> None]

\* GET /search/{t}, lines 227-228: if not schema_manager: raise
\* HTTPException(400).
search_table_simple_check(r, t) ==
    /\ Arrives(r, [kind |-> "search", arg |-> t])
    /\ IF IsNone(schema_manager)
       THEN /\ Reply(r, handler_except(400), [db |-> None, table |-> t])
            /\ UNCHANGED began
       ELSE /\ pc' = [pc EXCEPT ![r] = "s_call"]
            /\ began' = [began EXCEPT ![r] = Some(Seen(The(schema_manager)))]
            /\ UNCHANGED resp
    /\ UNCHANGED <<booted, schema_manager>>
    /\ UNCHANGED <<eng_vars, ops_vars>>

\* Lines 235-252: result = schema_manager.search(...), a second read of the
\* global, and the response built from the result.
search_table_simple_call(r) ==
    /\ pc[r] = "s_call"
    /\ IF engine_can_serve(The(schema_manager), req[r].arg)
       THEN Reply(r, 200, [db |-> The(schema_manager).db_path, table |-> req[r].arg])
       ELSE \E st \in {400, 500} :
               Reply(r, st, [db |-> None, table |-> req[r].arg])
    /\ began' = [began EXCEPT ![r] = Nothing]
    /\ UNCHANGED <<booted, schema_manager, req>>
    /\ UNCHANGED <<eng_vars, ops_vars>>

\* ------------------------------------------------ GET /export/kml/{table_name}
\* GET /export/kml/{t}, lines 295-296.
export_kml_check(r, t) ==
    /\ Arrives(r, [kind |-> "export", arg |-> t])
    /\ IF IsNone(schema_manager)
       THEN /\ Reply(r, handler_except(400), [db |-> None, table |-> t])
            /\ UNCHANGED began
       ELSE /\ pc' = [pc EXCEPT ![r] = "e_call"]
            /\ began' = [began EXCEPT ![r] = Some(Seen(The(schema_manager)))]
            /\ UNCHANGED resp
    /\ UNCHANGED <<booted, schema_manager>>
    /\ UNCHANGED <<eng_vars, ops_vars>>

\* Line 298: schema_manager.export_kmz(...) starts on the calling thread.
export_kml_call(r) ==
    /\ pc[r] = "e_call"
    /\ IF engine_can_serve(The(schema_manager), req[r].arg)
       THEN /\ pc' = [pc EXCEPT ![r] = "e_run"]
            /\ began' = [began EXCEPT ![r] =
                  Some([The(began[r]) EXCEPT !.used = The(schema_manager).db_path])]
            /\ UNCHANGED resp
       ELSE /\ \E st \in {400, 500} :
                  Reply(r, st, [db |-> None, table |-> req[r].arg])
            /\ began' = [began EXCEPT ![r] = Nothing]
    /\ UNCHANGED <<booted, schema_manager, req>>
    /\ UNCHANGED <<eng_vars, ops_vars>>

\* Lines 305-321: the export has run to its end; the document is streamed.
export_kml_finish(r) ==
    /\ pc[r] = "e_run"
    /\ Reply(r, 200, [db |-> The(began[r]).used, table |-> req[r].arg])
    /\ began' = [began EXCEPT ![r] = Nothing]
    /\ UNCHANGED <<booted, schema_manager, req>>
    /\ UNCHANGED <<eng_vars, ops_vars>>

\* ------------------------------------------------------------- GET /health
\* Mutant: the handler is serialised with the exports (one lock, or one
\* event loop, for both).
health_check_waits_for_exports(r) == pc[r] = "h_run" /\ ExportsRunning = 0

\* What holds the handler back: nothing; it is a plain "def" that takes no
\* lock and waits for no other request.
health_check_ready(r) == pc[r] = "h_run"

\* Lines 513-539.  get_schema_info() on a manager that never connected is
\* engine behaviour that is not known: it returns the empty catalog or raises.
\* exports_running is not a field of the body: it records how many exports
\* were running when the handler answered.
health_check(r) ==
    /\ health_check_ready(r)
    /\ \E raises \in {FALSE} \cup (IF IsNone(schema_manager) \/ The(schema_manager).connected
                                   THEN {} ELSE {TRUE}) :
          Reply(r, 200,
             IF IsNone(schema_manager)
             THEN [status |-> "healthy", database_connected |-> FALSE,
                   tables_accessible |-> FALSE, fts_available |-> FALSE,
                   total_tables |-> 0, exports_running |-> ExportsRunning]
             ELSE IF raises
             THEN [status |-> "unhealthy", error |-> "str(e)",
                   database_connected |-> FALSE, exports_running |-> ExportsRunning]
             ELSE [status |-> "healthy", database_connected |-> TRUE,
                   tables_accessible |->
                      get_schema_info(The(schema_manager)).total_tables > 0,
                   fts_available |-> get_schema_info(The(schema_manager)).fts_available,
                   total_tables |-> get_schema_info(The(schema_manager)).total_tables,
                   exports_running |-> ExportsRunning])
    /\ UNCHANGED <<booted, schema_manager, req, began>>
    /\ UNCHANGED <<eng_vars, ops_vars>>

\* ----------------------------------------------- GET /tables, GET /schema
\* Both handlers read the global once and answer from it in the same step:
\* what they return is a function of the global (lines 90-95, 97-117).
get_tables(sm) ==
    IF IsNone(sm) THEN {} ELSE get_schema_info(The(sm)).tables

get_schema(sm) ==
    IF IsNone(sm)
    THEN [tables |-> {}, total_tables |-> 0, fts_available |-> FALSE]
    ELSE get_schema_info(The(sm))

\* What the read-only endpoints answer in a given state of the global: the
\* tables and schema bodies, whether /health finds a database, and for each
\* table whether a search is served and from which database.
Answers(sm) ==
    <<get_tables(sm), get_schema(sm), ~IsNone(sm),
      [t \in TableNames |->
         IF IsNone(sm) THEN "no database"
         ELSE IF engine_can_serve(The(sm), t) THEN The(sm).db_path ELSE "error"]>>

\* -------------------------------------------------------------------- Next
Next ==
    \/ \E p \in DbPaths \cup {None} : create_fastapi_app(p)
    \/ \E r \in Req : Receive(r)
    \/ \E r \in Req : Retire(r)
    \/ \E r \in Req, p \in SwitchArgs : api_switch_database(r, p)
    \/ \E r \in Req, p \in SwitchArgs : switch_database_route_check(r, p)
    \/ \E r \in Req : switch_database_route_switch(r)
    \/ \E r \in Req : switch_database_route_create(r)
    \/ \E r \in Req : switch_database_route_connect(r)
    \/ \E r \in Req, t \in TableNames : search_table_simple_check(r, t)
    \/ \E r \in Req : search_table_simple_call(r)
    \/ \E r \in Req, t \in TableNames : export_kml_check(r, t)
    \/ \E r \in Req : export_kml_call(r)
    \/ \E r \in Req : export_kml_finish(r)
    \/ \E r \in Req : health_check(r)

Spec == Init /\ [][Next]_vars

\* Each handler is a plain "def": FastAPI runs it on a worker thread of its
\* own, and the operating system schedules a runnable thread eventually.
\* Nothing is assumed of the other requests: an export may run for ever.
FairSpec == Spec /\ \A r \in Req : WF_vars(health_check(r))

\* ------------------------------------------------------------------ claims
SwitchPcs == {"sw_switch", "sw_create", "sw_connect"}
IsSwitchReq(r) == req[r].kind \in {"switch", "api_switch"}
Steps(r) == pc'[r] # pc[r]
Connected(sm) == ~IsNone(sm) /\ The(sm).connected

\* C1: no step of a switch request (backend or Flask route) that names a
\* path which does not exist changes the global schema_manager, its path or
\* its catalog, so every read-only endpoint answers after it as before.
C1_FailedSwitchIsNoOp ==
    [][\A r \in Req :
          (/\ req'[r].kind \in {"switch", "api_switch"}
           /\ ~path_exists(req'[r].arg)
           /\ Steps(r))
             => /\ schema_manager' = schema_manager
                /\ Answers(schema_manager') = Answers(schema_manager)]_vars

\* C1 witness: a switch to the nonexistent path has been answered while a
\* database is loaded and connected.
C1_Witness ==
    \E r \in Req :
       /\ pc[r] = "done" /\ IsSwitchReq(r) /\ req[r].arg = "gone.db"
       /\ Connected(schema_manager)

\* C2: once no switch request is being handled, the service is Unloaded
\* (schema_manager is None) or holds a manager that connected; it never
\* holds a manager whose connect() failed.
C2_NeverHalfOpen ==
    (\A r \in Req : pc[r] \notin SwitchPcs)
       => (IsNone(schema_manager) \/ The(schema_manager).connected)

\* C3: POST /switch-database answers 404 when dbPath is missing or does not
\* exist, 500 only when the path exists and the switch failed, and 200 only
\* when the switch succeeded.
C3_SwitchStatus ==
    \A r \in Req :
       (pc[r] = "done" /\ req[r].kind = "switch")
          => /\ ~path_exists(req[r].arg) => The(resp[r]).status = 404
             /\ The(resp[r]).status = 500 => path_exists(req[r].arg)
             /\ The(resp[r]).status = 200 => openable(req[r].arg)
             /\ The(resp[r]).status \in {200, 404, 500}

\* C4: no search or export passes its "database loaded" check and takes the
\* handle while a switch is between replacing the handle and the end of the
\* catalog rebuild, and no two switches are in that section together.
StartsQuery(r) ==
    /\ pc[r] = "idle"
    /\ pc'[r] \in {"s_call", "e_call"}
C4_SwitchIsExclusive ==
    [][/\ \A r \in Req : StartsQuery(r) => ~SwitchInProgress
       /\ Cardinality({w \in Req : InSwitch(w)}) <= 1]_vars

\* C5: a search or export that passed its check while a database holding
\* its table was active is answered 200 with a result drawn from that
\* database.
C5_InFlightKeepsDatabase ==
    [][\A r \in Req :
          (/\ pc[r] \in {"s_call", "e_call", "e_run"}
           /\ pc'[r] = "done"
           /\ The(began[r]).db # None
           /\ req[r].arg \in tables_of(The(began[r]).db))
             => /\ The(resp'[r]).status = 200
                /\ The(resp'[r]).body.db = The(began[r]).db]_vars

\* C7: a /health request that has arrived is eventually answered, whatever
\* the exports in progress do (they need not finish).
C7_HealthEventuallyAnswered ==
    \A r \in Req : (pc[r] = "h_run") ~> (pc[r] = "done")

\* C7 witness: /health has been answered while an export was running.
C7_Witness ==
    \E r \in Req :
       /\ pc[r] = "done" /\ req[r].kind = "health"
       /\ The(resp[r]).body.exports_running > 0

HealthFields ==
    {"status", "database_connected", "tables_accessible", "fts_available", "total_tables"}

\* C16: whatever the state of the service, /health is answered 200 with a
\* body that has the five fields status, database_connected,
\* tables_accessible, fts_available and total_tables, database_connected
\* being true exactly when schema_manager is set and tables_accessible
\* exactly when total_tables > 0.
C16_HealthBody ==
    [][\A r \in Req :
          (pc[r] = "h_run" /\ pc'[r] = "done")
             => LET b == The(resp'[r]).body
                IN  /\ The(resp'[r]).status = 200
                    /\ HealthFields \subseteq DOMAIN b
                    /\ b.database_connected = ~IsNone(schema_manager)
                    /\ b.tables_accessible = (b.total_tables > 0)]_vars

\* C17: a search on a name that is not a table of the connected database
\* is answered 404, and a search is answered 5xx only when the storage layer
\* failed (the manager has no open database).
C17_SearchErrorKinds ==
    [][\A r \in Req :
          (pc[r] = "s_call" /\ pc'[r] = "done")
             => LET m == The(schema_manager)
                    st == The(resp'[r]).status
                IN  /\ (m.connected /\ req[r].arg \notin m.tables) => st = 404
                    /\ st >= 500 => ~m.connected]_vars

\* ======================================================================
\* Search and export on one loaded database: the handlers around
\* schema_manager.search and schema_manager.export_kmz, one request at a time.
\* ======================================================================

\* ------------------------------------------------------------------ bounds
\* Most rows the table holds.
MaxRows == 3

\* ------------------------------------------------------- program constants
\* "if size > 10000: size = 10000" and Query(10, ge=1, le=10000).
MaxSize == 10000
\* limit: int = Query(10000, ge=1, le=50000)
MaxLimit == 50000
DefaultLimit == 10000

Min(a, b) == IF a < b THEN a ELSE b
Max(a, b) == IF a > b THEN a ELSE b

\* ---------------------------------------------------- grid coordinates
\* A coordinate string is a sequence of characters.
Digits == {"0", "1", "2", "3", "4", "5", "6", "7", "8", "9"}
DigitVal(c) ==
    CASE c = "0" -> 0 [] c = "1" -> 1 [] c = "2" -> 2 [] c = "3" -> 3 [] c = "4" -> 4
      [] c = "5" -> 5 [] c = "6" -> 6 [] c = "7" -> 7 [] c = "8" -> 8 [] OTHER -> 9
BandLetters == {"C", "D", "E", "F", "G", "H", "J", "K", "L", "M", "N", "P", "Q", "R",
                "S", "T", "U", "V", "W", "X"}
SquareLetters == BandLetters \cup {"A", "B", "Y", "Z"}

\* engine: the number of leading digits of the grid-zone designator.
ZoneDigits(s) ==
    IF Len(s) >= 2 /\ s[1] \in Digits /\ s[2] \in Digits THEN 2
    ELSE IF Len(s) >= 1 /\ s[1] \in Digits THEN 1 ELSE 0

\* engine: parse a military-grid string: grid-zone designator (zone 1..60 and
\* a band letter), 100 km square (two letters), then easting and northing
\* digits, as many of the one as of the other, at most five each.
parse_mgrs(s) ==
    LET n == ZoneDigits(s)
        zone == IF n = 2 THEN 10 * DigitVal(s[1]) + DigitVal(s[2])
                ELSE IF n = 1 THEN DigitVal(s[1]) ELSE 0
        rest == IF Len(s) >= n + 3 THEN SubSeq(s, n + 4, Len(s)) ELSE <<>>
    IN  IF Len(s) = 0 THEN [ok |-> FALSE, reason |-> "empty coordinate"]
        ELSE IF n = 0 \/ zone < 1 \/ zone > 60 \/ Len(s) < n + 3
        THEN [ok |-> FALSE, reason |-> "bad grid zone"]
        ELSE IF s[n + 1] \notin BandLetters \/ s[n + 2] \notin SquareLetters
                \/ s[n + 3] \notin SquareLetters
        THEN [ok |-> FALSE, reason |-> "bad grid zone"]
        ELSE IF \E i \in 1..Len(rest) : rest[i] \notin Digits
        THEN [ok |-> FALSE, reason |-> "bad digits"]
        ELSE IF Len(rest) % 2 # 0 \/ Len(rest) > 10
        THEN [ok |-> FALSE, reason |-> "uneven easting/northing"]
        ELSE [ok |-> TRUE, reason |-> "ok"]

MgrsGood == <<"1", "8", "S", "U", "J", "2", "3", "4", "8">>
MgrsOdd == <<"1", "8", "S", "U", "J", "2", "3", "4">>
MgrsEmpty == <<>>

\* ------------------------------------------------------------- the table
\* A row has a free-text field and a coordinate field; its identity is its
\* position in rows.
RowValues ==
    { [text |-> "alpha", mgrs |-> MgrsGood], [text |-> "alpha", mgrs |-> MgrsOdd],
      [text |-> "beta", mgrs |-> MgrsGood], [text |-> "beta", mgrs |-> MgrsEmpty] }

Tables == UNION { [1..n -> RowValues] : n \in 0..MaxRows }

\* --------------------------------------------------------------- requests
\* q: "*" (match all) or one free-text token.
Queries == { [kind |-> "all", v |-> None], [kind |-> "term", v |-> "alpha"],
             [kind |-> "term", v |-> "beta"] }
MatchAll == [kind |-> "all", v |-> None]
\* filters: none, or an exact value for the field text.
Filters == { None, "alpha" }
\* sort: none, or the field text in descending order.
Sorts == { None, "text desc" }

SizeInputs == {-1, 0, MaxSize, MaxSize + 1} \cup 1..MaxRows
FromInputs == -1..MaxRows
LimitInputs == {0, DefaultLimit, MaxLimit, MaxLimit + 1} \cup 1..MaxRows

\* ----------------------------------------------------------------- engine
\* engine: the predicate of a request on one row.
Matches(row, q, filters) ==
    /\ q.kind = "all" \/ row.text = q.v
    /\ filters = None \/ row.text = filters

MatchingIds(tbl, q, filters) == { i \in 1..Len(tbl) : Matches(tbl[i], q, filters) }

\* engine: without an index every matching row scores 1.0.
Score(row, q) == 1

TextRank(t) == IF t = "alpha" THEN 1 ELSE 2

\* engine: row i comes before row j: the explicit sort first, else the score
\* descending, and the row identity ascending to break ties.
Before(tbl, q, sort, i, j) ==
    IF sort = "text desc" /\ TextRank(tbl[i].text) # TextRank(tbl[j].text)
    THEN TextRank(tbl[i].text) > TextRank(tbl[j].text)
    ELSE IF Score(tbl[i], q) # Score(tbl[j], q)
    THEN Score(tbl[i], q) > Score(tbl[j], q)
    ELSE i < j

RECURSIVE Ordered(_, _, _, _)
Ordered(tbl, q, sort, ids) ==
    IF ids = {} THEN <<>>
    ELSE LET first == CHOOSE i \in ids : \A j \in ids \ {i} : Before(tbl, q, sort, i, j)
         IN  <<first>> \o Ordered(tbl, q, sort, ids \ {first})

Hit(tbl, i) == [id |-> i, text |-> tbl[i].text, mgrs |-> tbl[i].mgrs]

\* engine: the page window [from_, from_ + size) of a sequence.
Window(seq, size, from_) ==
    IF size <= 0 \/ from_ < 0 \/ from_ >= Len(seq) THEN <<>>
    ELSE SubSeq(seq, from_ + 1, Min(from_ + size, Len(seq)))

\* engine: search(table_name, query, fields, filters, sort, size, from_):
\* total over the full matched set, then the sort, then the window.
search(tbl, q, filters, sort, size, from_) ==
    LET ids == MatchingIds(tbl, q, filters)
        ordered == Ordered(tbl, q, sort, ids)
    IN  [ total |-> Cardinality(ids),
          hits |-> [k \in 1..Len(Window(ordered, size, from_)) |->
                       Hit(tbl, Window(ordered, size, from_)[k])] ]

\* engine: export_kmz(table_name, query, mgrs_field, limit): the search
\* with size = limit and from = 0; a row whose coordinate does not parse is
\* skipped and recorded, the rows after it are still exported; the document
\* is valid (and not empty) even without placemarks.
RECURSIVE Placemarks(_)
Placemarks(hits) ==
    IF hits = <<>> THEN <<>>
    ELSE IF parse_mgrs(Head(hits).mgrs).ok
         THEN <<Head(hits).id>> \o Placemarks(Tail(hits))
         ELSE Placemarks(Tail(hits))

RECURSIVE Errors(_)
Errors(hits) ==
    IF hits = <<>> THEN <<>>
    ELSE IF parse_mgrs(Head(hits).mgrs).ok
         THEN Errors(Tail(hits))
         ELSE <<[id |-> Head(hits).id, reason |-> parse_mgrs(Head(hits).mgrs).reason]>>
                 \o Errors(Tail(hits))

export_kmz(tbl, q, limit) ==
    LET hits == search(tbl, q, None, None, limit, 0).hits
    IN  [ kml_bytes |-> [document |-> "kml", placemarks |-> Placemarks(hits)],
          metadata |-> [ requested |-> Len(hits),
                         exported |-> Len(Placemarks(hits)),
                         skipped |-> Len(Errors(hits)),
                         errors |-> Errors(hits) ] ]

\* One request at a time: a request is taken when the caller has read the
\* answer to the one before.
Idle == IsNone(answer) /\ IsNone(pager)

\* ----------------------------------------------- GET /search/{table_name}
\* size: int = Query(10, ge=1, le=10000); from_: int = Query(0, ge=0): a
\* value out of range is answered 422 before the handler runs.
simple_query_valid(size, from_) == size >= 1 /\ size <= MaxSize /\ from_ >= 0

\* Mutant: the window is handed on without its offset.
search_table_simple_args_nofrom(size, from_) == [size |-> size, from_ |-> 0]

\* Lines 241-242: size=size, from_=from_.
search_table_simple_args(size, from_) == [size |-> size, from_ |-> from_]

\* Mutant: the total is taken from the page.
search_table_simple_body_pagetotal(result) ==
    [total |-> Len(result.hits), hits |-> result.hits]

\* Lines 247-252: the simple response.
search_table_simple_body(result) == [total |-> result.total, hits |-> result.hits]

\* The handler on a loaded database: status, the window handed to the engine
\* (none when the engine was not called) and the body.
search_table_simple_response(tbl, q, filters, sort, size, from_) ==
    IF ~simple_query_valid(size, from_)
    THEN [status |-> 422, args |-> Nothing, body |-> [total |-> 0, hits |-> <<>>]]
    ELSE LET args == search_table_simple_args(size, from_)
         IN  [status |-> 200, args |-> Some(args),
              body |-> search_table_simple_body(
                          search(tbl, q, filters, sort, args.size, args.from_))]

search_table_simple(q, filters, sort, size, from_) ==
    /\ Idle
    /\ LET r == search_table_simple_response(rows, q, filters, sort, size, from_)
       IN  /\ answer' = Some([op |-> "GET search", q |-> q, filters |-> filters,
                              sort |-> sort, size |-> size, from_ |-> from_,
                              status |-> r.status, body |-> r.body])
           /\ engine_args' = r.args
    /\ pager' = Nothing
    /\ UNCHANGED rows
    /\ UNCHANGED <<svc_vars, ops_vars>>

\* ---------------------------------------------- POST /search/{table_name}
\* Lines 171-174: "Validate parameters".
search_table_args(size, from_) ==
    [size |-> IF size > MaxSize THEN MaxSize ELSE size,
     from_ |-> IF from_ < 0 THEN 0 ELSE from_]

\* Lines 188-207: the Elasticsearch envelope; _id is str(i) for i, hit in
\* enumerate(result.hits), the position in the page, kept here as the number
\* that str writes.
search_table_body(result) ==
    [total |-> result.total,
     hits |-> [k \in 1..Len(result.hits) |-> [_id |-> k - 1, _source |-> result.hits[k]]]]

search_table(q, size, from_) ==
    /\ Idle
    /\ LET args == search_table_args(size, from_)
           result == search(rows, q, None, None, args.size, args.from_)
       IN  /\ answer' = Some([op |-> "POST search", q |-> q, filters |-> None,
                              sort |-> None, size |-> size, from_ |-> from_,
                              status |-> 200, body |-> search_table_body(result)])
           /\ engine_args' = Some(args)
    /\ pager' = Nothing
    /\ UNCHANGED rows
    /\ UNCHANGED <<svc_vars, ops_vars>>

\* ------------------------------------------- GET /export/kml/{table_name}
\* limit: int = Query(10000, ge=1, le=50000).
export_limit_valid(limit) == limit >= 1 /\ limit <= MaxLimit

\* Mutant: the export runs with the default limit whatever was asked.
export_kml_limit_default(limit) == DefaultLimit

\* Line 302: limit=limit.
export_kml_limit(limit) == limit

\* Mutant: a document without placemarks is taken for no document.
no_bytes_without_placemarks(kml_bytes) ==
    kml_bytes.document = "" \/ kml_bytes.placemarks = <<>>

\* Line 305: "if not kml_bytes".
no_bytes(kml_bytes) == kml_bytes.document = ""

\* Lines 294-326.
export_kml_response(tbl, q, limit) ==
    IF ~export_limit_valid(limit)
    THEN [status |-> 422, metadata |-> Nothing, placemarks |-> <<>>]
    ELSE LET out == export_kmz(tbl, q, export_kml_limit(limit))
         IN  IF no_bytes(out.kml_bytes)
             THEN [status |-> handler_except(400), metadata |-> Nothing, placemarks |-> <<>>]
             ELSE [status |-> 200, metadata |-> Some(out.metadata),
                   placemarks |-> out.kml_bytes.placemarks]

export_kml(q, limit) ==
    /\ Idle
    /\ LET r == export_kml_response(rows, q, limit)
       IN  answer' = Some([op |-> "GET export", q |-> q, limit |-> limit,
                           status |-> r.status, metadata |-> r.metadata,
                           placemarks |-> r.placemarks])
    /\ engine_args' = Nothing
    /\ pager' = Nothing
    /\ UNCHANGED rows
    /\ UNCHANGED <<svc_vars, ops_vars>>

\* ------------------------------------- Flask GET /export_kml/<table_name>
\* app.py lines 581-592: a 200 of the backend is passed on as a download of
\* the document; anything else ends in redirect(url_for('results')), and
\* the application has no endpoint of that name (the view of /results is
\* search_results), so url_for raises and Flask answers 500.
\* The endpoints of the Flask application: the names of its view functions
\* (app.py, every @app.route).
Endpoints ==
    { "home", "search", "search_results", "report", "create", "create_database",
      "test_upload", "select_folder", "create_database_from_folder", "settings",
      "upload_database", "about", "contact", "export_kml", "api_health",
      "api_tables", "api_search", "api_switch_database" }

\* redirect(url_for(endpoint)): 302 to the page of a known endpoint; for an
\* unknown one url_for raises BuildError, no handler catches it, and Flask
\* answers 500.
redirect(endpoint) == IF endpoint \in Endpoints THEN 302 ELSE 500

flask_export_kml_response(backend) ==
    IF backend.status = 200
    THEN [status |-> 200, metadata |-> backend.metadata, placemarks |-> backend.placemarks]
    ELSE [status |-> redirect("results"), metadata |-> Nothing, placemarks |-> <<>>]

\* app.py lines 571-592: limit = request.args.get('limit', 10000, type=int)
\* is passed to the backend as it is.
flask_export_kml(q, limit) ==
    /\ Idle
    /\ LET r == flask_export_kml_response(export_kml_response(rows, q, limit))
       IN  answer' = Some([op |-> "Flask export", q |-> q, limit |-> limit,
                           status |-> r.status, metadata |-> r.metadata,
                           placemarks |-> r.placemarks])
    /\ engine_args' = Nothing
    /\ pager' = Nothing
    /\ UNCHANGED rows
    /\ UNCHANGED <<svc_vars, ops_vars>>

\* ------------------------------------------------ a caller reading pages
\* The caller fixes a request and a page size and asks for the windows
\* [0, size), [size, 2 size), ... until the reported total is covered.
StartPaging(q, filters, sort, size) ==
    /\ Idle
    /\ pager' = Some([q |-> q, filters |-> filters, sort |-> sort, size |-> size,
                      next |-> 0, acc |-> <<>>, done |-> FALSE])
    /\ answer' = Nothing
    /\ engine_args' = Nothing
    /\ UNCHANGED rows
    /\ UNCHANGED <<svc_vars, ops_vars>>

FetchPage ==
    /\ ~IsNone(pager)
    /\ ~The(pager).done
    /\ LET pg == The(pager)
           r == search_table_simple_response(rows, pg.q, pg.filters, pg.sort, pg.size, pg.next)
       IN  /\ pager' = Some([pg EXCEPT !.acc = pg.acc \o r.body.hits,
                                       !.next = pg.next + pg.size,
                                       !.done = pg.next + pg.size >= r.body.total])
           /\ engine_args' = r.args
    /\ answer' = Nothing
    /\ UNCHANGED rows
    /\ UNCHANGED <<svc_vars, ops_vars>>

\* The caller has read the answer (or the last page).
ReadAnswer ==
    /\ ~IsNone(answer) \/ (~IsNone(pager) /\ The(pager).done)
    /\ answer' = Nothing
    /\ pager' = Nothing
    /\ engine_args' = Nothing
    /\ UNCHANGED rows
    /\ UNCHANGED <<svc_vars, ops_vars>>

SearchInit ==
    /\ OpsIdle
    /\ booted = FALSE
    /\ schema_manager = Nothing
    /\ pc = [r \in Req |-> "idle"]
    /\ req = [r \in Req |-> NoReq]
    /\ began = [r \in Req |-> Nothing]
    /\ resp = [r \in Req |-> Nothing]
    /\ rows \in Tables
    /\ engine_args = Nothing
    /\ answer = Nothing
    /\ pager = Nothing

SearchNext ==
    \/ \E q \in Queries, f \in Filters, s \in Sorts, size \in SizeInputs, from_ \in FromInputs :
          search_table_simple(q, f, s, size, from_)
    \/ \E q \in Queries, size \in SizeInputs, from_ \in FromInputs :
          search_table(q, size, from_)
    \/ \E q \in Queries, limit \in LimitInputs : export_kml(q, limit)
    \/ \E q \in Queries, limit \in LimitInputs : flask_export_kml(q, limit)
    \/ \E q \in Queries, f \in Filters, s \in Sorts, size \in 1..MaxRows :
          StartPaging(q, f, s, size)
    \/ FetchPage
    \/ ReadAnswer

SearchSpec == SearchInit /\ [][SearchNext]_vars

\* ------------------------------------------------------------------ claims
IsAnswer(op) == ~IsNone(answer) /\ The(answer).op = op /\ The(answer).status = 200

\* C6: the page window handed to schema_manager.search by either search
\* endpoint has 1 <= size <= 10000 and from >= 0.
C6_WindowInRange ==
    ~IsNone(engine_args)
       => /\ The(engine_args).size >= 1
          /\ The(engine_args).size <= MaxSize
          /\ The(engine_args).from_ >= 0

\* The rows of the table that satisfy the request of the last answer.
AnswerMatching == MatchingIds(rows, The(answer).q, The(answer).filters)

\* C8 as amended: the total of GET /search equals the number of rows that
\* satisfy the predicate whatever the window, a match-all search reports the
\* row count, and the page holds min(size, max(0, total - from)) hits, which
\* is min(size, total) for from = 0.
C8_TotalAndHitCount ==
    IsAnswer("GET search")
       => LET a == The(answer)
          IN  /\ a.body.total = Cardinality(AnswerMatching)
              /\ (a.q = MatchAll /\ a.filters = None) => a.body.total = Len(rows)
              /\ Len(a.body.hits) = Min(a.size, Max(0, a.body.total - a.from_))
              /\ a.from_ = 0 => Len(a.body.hits) = Min(a.size, a.body.total)

\* C8 as stated: ... and a match-all search returns exactly min(size, total)
\* hits, for every window.
C8_AsStated ==
    IsAnswer("GET search")
       => LET a == The(answer)
          IN  /\ a.body.total = Cardinality(AnswerMatching)
              /\ (a.q = MatchAll /\ a.filters = None)
                    => /\ a.body.total = Len(rows)
                       /\ Len(a.body.hits) = Min(a.size, a.body.total)

\* C8 witness: a filtered search answered with a page that starts past the
\* first hit and a total larger than the page.
C8_Witness ==
    /\ IsAnswer("GET search")
    /\ The(answer).q # MatchAll
    /\ The(answer).from_ = 1
    /\ Len(The(answer).body.hits) = 1
    /\ The(answer).body.total = 2
    /\ The(answer).body.total < Len(rows)

\* The identities of a sequence of hits.
HitIds(hits) == [k \in 1..Len(hits) |-> hits[k].id]
NoDuplicates(seq) == \A i, j \in 1..Len(seq) : seq[i] = seq[j] => i = j

\* C9: once the windows [0, size), [size, 2 size), ... cover the total, the
\* pages put end to end are the unpaged result of the same request: the same
\* hits in the same order, no row twice and no matching row missing.
C9_PagesConcatenate ==
    (~IsNone(pager) /\ The(pager).done)
       => LET pg == The(pager)
              matching == MatchingIds(rows, pg.q, pg.filters)
              unpaged == search_table_simple_response(rows, pg.q, pg.filters, pg.sort,
                             Max(1, Cardinality(matching)), 0).body.hits
          IN  /\ pg.acc = unpaged
              /\ NoDuplicates(HitIds(pg.acc))
              /\ {pg.acc[k].id : k \in 1..Len(pg.acc)} = matching

\* C9 witness: a sorted result of three rows has been read in pages of one.
C9_Witness ==
    /\ ~IsNone(pager) /\ The(pager).done
    /\ The(pager).size = 1
    /\ The(pager).sort = "text desc"
    /\ Len(The(pager).acc) = 3
    /\ The(pager).acc[1].id > The(pager).acc[3].id

\* The rows an export considers: the first limit matching rows.
Considered(q, limit) ==
    LET matching == MatchingIds(rows, q, None)
    IN  { i \in matching : Cardinality({ j \in matching : j < i }) < limit }
Unparsable(ids) == { i \in ids : ~parse_mgrs(rows[i].mgrs).ok }

\* C10: requested is min(limit, matching rows); exported + skipped =
\* requested; every considered row whose coordinate does not parse counts
\* once in skipped and has one entry in errors; every other considered row
\* has its placemark, also after a row that was skipped.
C10_ExportAccounting ==
    IsAnswer("GET export")
       => LET a == The(answer)
              md == The(a.metadata)
              considered == Considered(a.q, a.limit)
          IN  /\ md.requested = Min(a.limit, Cardinality(MatchingIds(rows, a.q, None)))
              /\ md.exported + md.skipped = md.requested
              /\ md.skipped = Cardinality(Unparsable(considered))
              /\ Len(md.errors) = md.skipped
              /\ NoDuplicates(HitIds(md.errors))
              /\ {md.errors[k].id : k \in 1..Len(md.errors)} = Unparsable(considered)
              /\ md.exported = Len(a.placemarks)
              /\ {a.placemarks[k] : k \in 1..Len(a.placemarks)}
                    = considered \ Unparsable(considered)

\* C10 witness: an export cut by its limit in which a row was skipped and a
\* row after it was exported.
C10_Witness ==
    /\ IsAnswer("GET export")
    /\ The(The(answer).metadata).requested = The(answer).limit
    /\ The(answer).limit < Cardinality(MatchingIds(rows, The(answer).q, None))
    /\ The(The(answer).metadata).skipped = 1
    /\ The(The(answer).metadata).exported = 1
    /\ The(answer).placemarks[1] > The(The(answer).metadata).errors[1].id

\* An export, by the backend or through the Flask route, in which the limit
\* was valid and no row was converted.
IsExport == ~IsNone(answer) /\ The(answer).op \in {"GET export", "Flask export"}
NothingConverts(q, limit) ==
    Considered(q, limit) \ Unparsable(Considered(q, limit)) = {}

\* C11: an export with a valid limit in which no row converts (no matching
\* row, or every considered coordinate unparsable) is answered 200 by the
\* backend and passed on as a download by the Flask route, with a document
\* that holds no placemark and metadata exported = 0.
C11_EmptyExportIsSuccess ==
    (IsExport /\ export_limit_valid(The(answer).limit)
              /\ NothingConverts(The(answer).q, The(answer).limit))
       => /\ The(answer).status = 200
          /\ The(answer).placemarks = <<>>
          /\ ~IsNone(The(answer).metadata)
          /\ The(The(answer).metadata).exported = 0

\* C11 witness: the Flask route has passed on an export in which two rows
\* were considered and neither coordinate parsed.
C11_Witness ==
    /\ IsExport /\ The(answer).op = "Flask export"
    /\ The(answer).status = 200
    /\ The(The(answer).metadata).requested = 2
    /\ The(The(answer).metadata).skipped = 2
    /\ The(The(answer).metadata).exported = 0

\* ======================================================================
\* The catalog endpoints of the backend, one request at a time: table
\* descriptors, single records and index creation, on whatever database the
\* service has been switched to.
\* ======================================================================

\* ----------------------------------------------------------------- engine
\* engine: the free-text fields the classifier finds in a table.
free_text_fields(p, t) ==
    CASE p = "a.db" /\ t = "reports" -> {"text"}
      [] p = "b.db" /\ t = "reports" -> {"text"}
      [] OTHER -> {}

\* engine: the identifiers of the records a table holds.
records_of(p, t) ==
    CASE p = "a.db" /\ t = "reports" -> {"1", "2"}
      [] p = "a.db" /\ t = "notes" -> {"1"}
      [] p = "b.db" /\ t = "reports" -> {"2"}
      [] OTHER -> {}

\* engine: schema_info['tables'][table_name].
TableDescriptor(p, t) ==
    [name |-> t, row_count |-> Cardinality(records_of(p, t)),
     searchable_fields |-> free_text_fields(p, t)]

\* engine: get_record_by_id(table_name, record_id): the record, or None when
\* the table holds no such record.  On a manager that never connected or on
\* an unknown table the engine returns None or raises.
get_record_by_id(m, t, id) ==
    IF ~engine_can_serve(m, t) THEN {"none", "raise"}
    ELSE IF id \in records_of(m.db_path, t) THEN {"found"}
    ELSE {"none"}

\* engine: create_fts_index(table_name, fields) can build the index: the
\* index engine is there, the table exists and has free-text fields, and the
\* fields asked for (none asked: all of them) are among these.
indexable(m, t, fields) ==
    /\ fts5
    /\ engine_can_serve(m, t)
    /\ free_text_fields(m.db_path, t) # {}
    /\ \A k \in 1..Len(fields) : fields[k] \in free_text_fields(m.db_path, t)

\* engine: the results create_fts_index can have: True, False (non-fatal),
\* or, on a manager that never connected or an unknown table, an exception.
create_fts_index_result(m, t, fields) ==
    IF indexable(m, t, fields) THEN {"true"}
    ELSE IF ~engine_can_serve(m, t) THEN {"false", "raise"}
    ELSE {"false"}

\* engine: the index artifacts after create_fts_index returned True: the
\* index of the table is created if it is not there (idempotent).
with_index(idx, p, t) == idx \cup {<<p, t>>}

\* --------------------------------------------------------------- requests
CatalogTables == TableNames \cup {"absent"}
RecordIds == {"1", "2", "9"}
\* fields: List[str] = Body(None): no list, or a list of field names.
FieldLists == {<<>>, <<"text">>}

\* The request is answered; the caller keeps the answer before it as well.
Answered(op, t, arg, engine, st, body) ==
    /\ call' = Some([op |-> op, table |-> t, arg |-> arg, engine |-> engine,
                     status |-> st, body |-> body, indexed |-> fts_index'])
    /\ prev_call' = call

\* ------------------------------------------------- POST /switch-database
\* Lines 482-511 run without another request in between.
switch_database_route(p) ==
    /\ booted
    /\ UNCHANGED <<fts5, fts_index>>
    /\ LET rejected == p = None \/ ~path_exists(p)
           success ==
              /\ ~rejected
              /\ IF IsNone(schema_manager)
                 THEN connect_ok(DynamicSchemaManager(p))
                 ELSE switch_database_ok(The(schema_manager), p)
       IN  /\ schema_manager' =
                 IF rejected THEN schema_manager
                 ELSE IF IsNone(schema_manager)
                 THEN Some(connect(DynamicSchemaManager(p)))
                 ELSE Some(switch_database(The(schema_manager), p))
           /\ Answered("switch", None, p, None,
                 IF rejected THEN switch_except(404)
                 ELSE IF success THEN 200 ELSE switch_except(500),
                 Nothing)
    /\ UNCHANGED <<eng_vars, front_vars, pc, req, began, resp, booted>>

\* ------------------------------------------------ GET /tables/{table_name}
\* Lines 119-130.  The handler has no try block: the exceptions it raises
\* leave with their own status, an exception of the engine leaves as 500.
get_table_info(t) ==
    /\ booted
    /\ UNCHANGED <<fts5, fts_index>>
    /\ IF IsNone(schema_manager)
       THEN Answered("table", t, None, None, 400, Nothing)
       ELSE \E raises \in {FALSE} \cup (IF The(schema_manager).connected THEN {} ELSE {TRUE}) :
               IF raises
               THEN Answered("table", t, None, "raise", 500, Nothing)
               ELSE IF t \notin get_schema_info(The(schema_manager)).tables
               THEN Answered("table", t, None, "absent", 404, Nothing)
               ELSE Answered("table", t, None, "present", 200,
                       Some(TableDescriptor(The(schema_manager).db_path, t)))
    /\ UNCHANGED <<eng_vars, svc_vars, front_vars>>

\* --------------------------- GET /tables/{table_name}/records/{record_id}
\* Mutant: the handler has no "except HTTPException: raise".
get_record_except_all(raised) == 500

\* Lines 281-282: "except HTTPException: raise" comes before "except
\* Exception", so a status the handler raised itself leaves as it is.
get_record_except(raised) == raised

\* Lines 264-284.
get_record(t, id) ==
    /\ booted
    /\ UNCHANGED <<fts5, fts_index>>
    /\ IF IsNone(schema_manager)
       THEN Answered("record", t, id, None, get_record_except(400), Nothing)
       ELSE \E out \in get_record_by_id(The(schema_manager), t, id) :
               CASE out = "found" ->
                       Answered("record", t, id, out, 200,
                          Some([id |-> id, source |-> The(schema_manager).db_path,
                                table |-> t]))
                 [] out = "none" ->
                       Answered("record", t, id, out, get_record_except(404), Nothing)
                 [] OTHER ->
                       Answered("record", t, id, out, 500, Nothing)
    /\ UNCHANGED <<eng_vars, svc_vars, front_vars>>

\* ------------------------------------------- POST /tables/{table_name}/fts
\* Mutant: the handler reports a created index as a failure.
create_fts_index_reply_inverted(success) ==
    IF success THEN handler_except(400) ELSE 200

\* Lines 338-347: the message on success; on failure HTTPException(400) is
\* raised inside the try block and leaves through "except Exception".
create_fts_index_reply(success) ==
    IF success THEN 200 ELSE handler_except(400)

\* Lines 328-347.
create_fts_index(t, fields) ==
    /\ booted
    /\ IF IsNone(schema_manager)
       THEN /\ UNCHANGED fts_index
            /\ Answered("fts", t, fields, None, handler_except(400), Nothing)
       ELSE \E out \in create_fts_index_result(The(schema_manager), t, fields) :
               CASE out = "true" ->
                       /\ fts_index' = with_index(fts_index, The(schema_manager).db_path, t)
                       /\ Answered("fts", t, fields, out, create_fts_index_reply(TRUE),
                             Some("FTS5 index created"))
                 [] out = "false" ->
                       /\ UNCHANGED fts_index
                       /\ Answered("fts", t, fields, out, create_fts_index_reply(FALSE),
                             Nothing)
                 [] OTHER ->
                       /\ UNCHANGED fts_index
                       /\ Answered("fts", t, fields, out, handler_except(500), Nothing)
    /\ UNCHANGED <<eng_vars, svc_vars, front_vars, fts5>>

\* --------------------------------------- GET /tables/{table_name}/fields
\* Lines 132-149.  No try block, as in get_table_info.
get_table_fields(t) ==
    /\ booted
    /\ UNCHANGED <<fts5, fts_index>>
    /\ IF IsNone(schema_manager)
       THEN Answered("fields", t, None, None, 400, Nothing)
       ELSE \E raises \in {FALSE} \cup (IF The(schema_manager).connected THEN {} ELSE {TRUE}) :
               IF raises
               THEN Answered("fields", t, None, "raise", 500, Nothing)
               ELSE IF t \notin get_schema_info(The(schema_manager)).tables
               THEN Answered("fields", t, None, "absent", 404, Nothing)
               ELSE Answered("fields", t, None, "present", 200,
                       Some([searchable_fields |->
                               TableDescriptor(The(schema_manager).db_path, t).searchable_fields]))
    /\ UNCHANGED <<eng_vars, svc_vars, front_vars>>

\* ------------------------------------------ GET /schema, /tables, /stats
\* Lines 545-552: the body of /stats when no database is loaded.
EmptyStats ==
    [total_tables |-> 0, total_rows |-> 0, fts_available |-> FALSE, fts_tables |-> {}]

\* Lines 554-564: the body of /stats on a loaded database.
database_stats(m) ==
    [total_tables |-> get_schema_info(m).total_tables,
     total_rows |-> Cardinality({<<t, id>> \in m.tables \X RecordIds :
                                    id \in records_of(m.db_path, t)}),
     fts_available |-> get_schema_info(m).fts_available,
     fts_tables |-> {t \in m.tables : <<m.db_path, t>> \in fts_index}]

\* Lines 90-95 (/schema), 97-117 (/tables), 541-566 (/stats): each handler
\* answers 200 with empty values when the global is None; get_schema_info
\* on a manager that never connected returns the empty catalog or raises.
read_catalog(op) ==
    /\ booted
    /\ UNCHANGED <<fts5, fts_index>>
    /\ IF IsNone(schema_manager)
       THEN Answered(op, None, None, None, 200,
               CASE op = "schema" -> Some(get_schema(schema_manager))
                 [] op = "tables" -> Some(get_tables(schema_manager))
                 [] OTHER -> Some(EmptyStats))
       ELSE \E raises \in {FALSE} \cup (IF The(schema_manager).connected THEN {} ELSE {TRUE}) :
               IF raises
               THEN Answered(op, None, None, "raise", 500, Nothing)
               ELSE Answered(op, None, None, "present", 200,
                       CASE op = "schema" -> Some(get_schema(schema_manager))
                         [] op = "tables" -> Some(get_tables(schema_manager))
                         [] OTHER -> Some(database_stats(The(schema_manager))))
    /\ UNCHANGED <<eng_vars, svc_vars, front_vars>>

\* ----------------------------------------------------------- CatalogSpec
CatalogInit ==
    /\ fts5 \in BOOLEAN
    /\ CatalogIdle
    /\ FrontIdle
    /\ booted = FALSE
    /\ schema_manager = Nothing
    /\ pc = [r \in Req |-> "idle"]
    /\ req = [r \in Req |-> NoReq]
    /\ began = [r \in Req |-> Nothing]
    /\ resp = [r \in Req |-> Nothing]
    /\ rows = <<>>
    /\ engine_args = Nothing
    /\ answer = Nothing
    /\ pager = Nothing

CatalogNext ==
    \/ \E p \in DbPaths \cup {None} : create_fastapi_app(p)
    \/ \E p \in SwitchArgs : switch_database_route(p)
    \/ \E t \in CatalogTables : get_table_info(t)
    \/ \E t \in CatalogTables, id \in RecordIds : get_record(t, id)
    \/ \E t \in CatalogTables, f \in FieldLists : create_fts_index(t, f)
    \/ \E t \in CatalogTables : get_table_fields(t)
    \/ \E op \in {"schema", "tables", "stats"} : read_catalog(op)

CatalogSpec == CatalogInit /\ [][CatalogNext]_vars

\* ------------------------------------------------------------------ claims
IsCall(op) == ~IsNone(call) /\ The(call).op = op
SameCallTwice ==
    /\ IsCall("fts") /\ ~IsNone(prev_call) /\ The(prev_call).op = "fts"
    /\ The(prev_call).table = The(call).table
    /\ The(prev_call).arg = The(call).arg

C13_IndexFailureNonFatal ==
    [][(~IsNone(call') /\ The(call').op = "fts" /\ The(call').engine = "false"
          /\ call' # call)
          => /\ The(call').status < 500
             /\ fts_index' = fts_index
             /\ schema_manager' = schema_manager]_vars

\* C14: GET /tables/{name} answers 200 with the descriptor when the name is
\* a table of the active database and 404 for every other name, also when
\* no database is loaded.
C14_TableInfoStatus ==
    IsCall("table")
       => IF The(call).table \in get_tables(schema_manager)
          THEN /\ The(call).status = 200
               /\ The(call).body =
                     Some(TableDescriptor(The(schema_manager).db_path, The(call).table))
          ELSE The(call).status = 404

\* C15: GET /tables/{table}/records/{id} answers 200 with the record and
\* its 'table' field set to the requested table when the engine finds the
\* record, and 404 when the engine returns no record.
C15_RecordOr404 ==
    IsCall("record")
       => /\ The(call).engine = "found"
                => /\ The(call).status = 200
                   /\ The(The(call).body).table = The(call).table
                   /\ The(The(call).body).id = The(call).arg
          /\ The(call).engine = "none" => The(call).status = 404

\* C15 witness: a record that the loaded table does not hold was asked for
\* and answered 404, after a record of the same table was found.
C15_Witness ==
    /\ IsCall("record") /\ The(call).engine = "none" /\ The(call).status = 404
    /\ Connected(schema_manager)
    /\ The(call).table \in The(schema_manager).tables
    /\ ~IsNone(prev_call) /\ The(prev_call).op = "record"
    /\ The(prev_call).status = 200

\* The endpoints that need a database, of those answered here; the search
\* and export handlers end in the same "except Exception" as create_fts_index.
NeedsDatabase == {"table", "fields", "record", "fts"}
Unloaded(c) == c.op # "switch" /\ c.engine = None

\* C21: while no database is loaded, every endpoint that needs a database
\* answers 400, and /schema, /tables and /stats answer 200 with empty values.
C21_UnloadedAnswers ==
    (~IsNone(call) /\ Unloaded(The(call)))
       => IF The(call).op \in NeedsDatabase
          THEN The(call).status = 400
          ELSE /\ The(call).status = 200
               /\ CASE The(call).op = "tables" -> The(call).body = Some({})
                    [] The(call).op = "schema" ->
                          The(call).body =
                             Some([tables |-> {}, total_tables |-> 0, fts_available |-> FALSE])
                    [] OTHER -> The(call).body = Some(EmptyStats)

\* ======================================================================
\* The front end's supervision of the backend: start_backend and
\* stop_backend of app.py (a child process) and of backend_runner.py (a
\* thread), and the ways the front end's main program ends.
\* ======================================================================

\* ------------------------------------------------------- program constants
\* app.py: "for _ in range(20)".
ProcessProbes == 20
\* backend_runner.py: "for attempt in range(30)".
ThreadProbes == 30

HealthProbes == IF posit THEN ThreadProbes ELSE ProcessProbes

\* BACKEND_PROCESS.poll() is None; _backend_thread.is_alive().
Alive(b) == b \in DOMAIN child /\ child[b] \in {"spawned", "starting", "serving"}

\* The handle start_backend looks at: the thread under Posit Connect, the
\* child process otherwise.
Tracked == IF posit THEN backend_thread ELSE BACKEND_PROCESS

\* Mutant: start_backend does not look at the backend it tracks.
TrackedRunning_unchecked == FALSE

\* "if BACKEND_PROCESS and BACKEND_PROCESS.poll() is None" (app.py line 58),
\* "if _backend_thread and _backend_thread.is_alive()" (backend_runner.py
\* line 36).
TrackedRunning == ~IsNone(Tracked) /\ Alive(The(Tracked))

\* The backends that listen on the port and answer /health with 200.
Serving == {b \in DOMAIN child : child[b] = "serving"}
\* The backends not started yet.
Fresh == Backends \ DOMAIN child

\* A call returns to the main program; the call of start_backend in the
\* main block is followed by app.run.
Returns(op, value) ==
    /\ ret' = Some([op |-> op, value |-> value])
    /\ mode' = "idle"
    /\ phase' = IF phase = "main" /\ op = "start" THEN "serving" ELSE phase

\* start_backend up to the health loop (app.py lines 38-81,
\* backend_runner.py lines 33-83): True at once when the tracked backend is
\* running; else the backend is started, or starting it raises and the call
\* returns False (backend_runner.py: without touching the flag when uvicorn
\* cannot be imported, lines 45-48, with _backend_ready = False otherwise,
\* lines 111-114).  The thread is created and started; what it runs is
\* run_backend.
start_backend ==
    /\ phase \in {"main", "serving"}
    /\ mode = "idle"
    /\ IF TrackedRunning
       THEN /\ Returns("start", TRUE)
            /\ UNCHANGED <<probes, BACKEND_PROCESS, backend_thread, child, backend_ready>>
       ELSE \/ /\ Returns("start", FALSE)
               /\ \E reset \in (IF posit THEN BOOLEAN ELSE {FALSE}) :
                     backend_ready' = IF reset THEN FALSE ELSE backend_ready
               /\ UNCHANGED <<probes, BACKEND_PROCESS, backend_thread, child>>
            \/ /\ Fresh # {}
               /\ LET b == CHOOSE x \in Fresh : \A y \in Fresh : x <= y
                  IN  /\ child' = Append(child, IF posit THEN "spawned" ELSE "starting")
                      /\ IF posit
                         THEN backend_thread' = Some(b) /\ UNCHANGED BACKEND_PROCESS
                         ELSE BACKEND_PROCESS' = Some(b) /\ UNCHANGED backend_thread
               /\ mode' = "probing"
               /\ probes' = 0
               /\ ret' = Nothing
               /\ UNCHANGED <<phase, backend_ready>>
    /\ UNCHANGED <<eng_vars, svc_vars, cat_vars, up_vars, posit, answered, stop_ran>>

\* Mutant: the loop does not count its rounds ("while True").
next_probe_uncounted(n) == n

\* "for _ in range(20)", "for attempt in range(30)": the next round.
next_probe(n) == n + 1

\* One round of the health loop (app.py lines 84-91, backend_runner.py lines
\* 87-104): requests.get(.../health) is answered by whichever backend
\* listens on the port.
start_backend_probe ==
    /\ phase \in {"main", "serving"}
    /\ mode = "probing"
    /\ probes < HealthProbes
    /\ IF Serving # {}
       THEN /\ Returns("start", TRUE)
            /\ answered' = answered \cup Serving
            /\ UNCHANGED probes
       ELSE /\ probes' = next_probe(probes)
            /\ UNCHANGED <<ret, mode, phase, answered>>
    /\ UNCHANGED <<eng_vars, svc_vars, cat_vars, up_vars, posit, stop_ran,
                   BACKEND_PROCESS, backend_thread, child, backend_ready>>

\* The loop has run out (app.py lines 93-94, backend_runner.py lines
\* 107-109): the call returns False; the backend it started is left as it
\* is, and the thread variant sets _backend_ready = False.
start_backend_timeout ==
    /\ phase \in {"main", "serving"}
    /\ mode = "probing"
    /\ probes = HealthProbes
    /\ Returns("start", FALSE)
    /\ backend_ready' = IF posit THEN FALSE ELSE backend_ready
    /\ UNCHANGED <<eng_vars, svc_vars, cat_vars, up_vars, posit, stop_ran, probes, answered,
                   BACKEND_PROCESS, backend_thread, child>>

\* backend_runner.py lines 70-75: the thread begins run_backend, which sets
\* _backend_ready = True before it calls _backend_server.run().
run_backend(b) ==
    /\ b \in DOMAIN child /\ child[b] = "spawned"
    /\ child' = [child EXCEPT ![b] = "starting"]
    /\ backend_ready' = TRUE
    /\ UNCHANGED <<eng_vars, svc_vars, cat_vars, up_vars, posit, phase, mode, probes,
                   BACKEND_PROCESS, backend_thread, answered, ret, stop_ran>>

\* A backend that is starting comes up: it binds the port, which no other
\* backend holds, and serves.
child_ready(b) ==
    /\ b \in DOMAIN child /\ child[b] = "starting"
    /\ Serving = {}
    /\ child' = [child EXCEPT ![b] = "serving"]
    /\ UNCHANGED <<eng_vars, svc_vars, cat_vars, up_vars, posit, phase, mode, probes,
                   BACKEND_PROCESS, backend_thread, answered, ret, stop_ran, backend_ready>>

\* A backend ends by itself (it crashes, it cannot bind the port, or it was
\* told to exit).  backend_runner.py lines 76-78: when run() raised an
\* Exception the thread sets _backend_ready = False on its way out.
child_exit(b) ==
    /\ b \in DOMAIN child /\ child[b] \in {"starting", "serving"}
    /\ child' = [child EXCEPT ![b] = "exited"]
    /\ \E raised \in (IF posit THEN BOOLEAN ELSE {FALSE}) :
          backend_ready' = IF raised THEN FALSE ELSE backend_ready
    /\ UNCHANGED <<eng_vars, svc_vars, cat_vars, up_vars, posit, phase, mode, probes,
                   BACKEND_PROCESS, backend_thread, answered, ret, stop_ran>>

\* Mutant: on TimeoutExpired the child is neither killed nor forgotten.
stop_backend_process_nokill(bp, ch, in_time) ==
    IF ~IsNone(bp) /\ ch[The(bp)] \in {"starting", "serving"} /\ in_time
    THEN [proc |-> Nothing, child |-> [ch EXCEPT ![The(bp)] = "exited"]]
    ELSE [proc |-> bp, child |-> ch]

\* app.py lines 111-122: a running child is terminated and waited for
\* (in_time), or killed when the wait times out, and BACKEND_PROCESS is set
\* to None; when no child is running nothing is done.
stop_backend_process(bp, ch, in_time) ==
    IF ~IsNone(bp) /\ ch[The(bp)] \in {"starting", "serving"}
    THEN [proc |-> Nothing, child |-> [ch EXCEPT ![The(bp)] = "exited"]]
    ELSE [proc |-> bp, child |-> ch]

\* backend_runner.py lines 116-133: should_exit is set, a second is waited,
\* in which the server ends (in_time) or not, and the thread is forgotten.
stop_backend_thread(bt, ch, in_time) ==
    IF ~IsNone(bt) /\ ch[The(bt)] \in {"starting", "serving"} /\ in_time
    THEN [thread |-> Nothing, child |-> [ch EXCEPT ![The(bt)] = "exited"]]
    ELSE [thread |-> Nothing, child |-> ch]

\* app.py lines 99-122: stop_backend.
stop_backend_body(in_time) ==
    IF posit
    THEN /\ backend_thread' = stop_backend_thread(backend_thread, child, in_time).thread
         /\ child' = stop_backend_thread(backend_thread, child, in_time).child
         /\ backend_ready' = FALSE
         /\ UNCHANGED BACKEND_PROCESS
    ELSE /\ BACKEND_PROCESS' = stop_backend_process(BACKEND_PROCESS, child, in_time).proc
         /\ child' = stop_backend_process(BACKEND_PROCESS, child, in_time).child
         /\ UNCHANGED <<backend_thread, backend_ready>>

\* stop_backend called by the application.
stop_backend(in_time) ==
    /\ phase \in {"main", "serving"}
    /\ mode = "idle"
    /\ stop_backend_body(in_time)
    /\ Returns("stop", TRUE)
    /\ UNCHANGED <<eng_vars, svc_vars, cat_vars, up_vars, posit, probes, answered, stop_ran>>

\* "with _backend_lock:" (backend_runner.py lines 35 and 120): the lock is
\* held from the entry of start_backend_in_thread to its return, whichever
\* return statement is taken; stop_backend_thread runs as one step here.
backend_lock_held == posit /\ mode = "probing"

\* app.py lines 648-652 under Posit Connect, the signal arriving while the
\* main thread is inside start_backend_in_thread: the handler runs on the
\* main thread, stop_backend_thread waits for _backend_lock, which is not
\* reentrant and is held by the call the handler has interrupted.
signal_handler_blocks ==
    /\ phase \in {"main", "serving"}
    /\ backend_lock_held
    /\ phase' = "blocked"
    /\ UNCHANGED <<eng_vars, svc_vars, cat_vars, up_vars, posit, mode, probes,
                   BACKEND_PROCESS, backend_thread, child, answered, ret, stop_ran,
                   backend_ready>>

\* app.py lines 648-652: SIGINT or SIGTERM arrives; the handler calls
\* stop_backend and sys.exit(0).  SystemExit ends the main program at once
\* when it is still in start_backend, and passes through the finally block
\* when it is in app.run.
signal_handler(in_time) ==
    /\ phase \in {"main", "serving"}
    /\ ~backend_lock_held
    /\ stop_backend_body(in_time)
    /\ ret' = Some([op |-> "stop", value |-> TRUE])
    /\ stop_ran' = TRUE
    /\ mode' = "idle"
    /\ phase' = IF phase = "serving" THEN "unwinding" ELSE "exited"
    /\ UNCHANGED <<eng_vars, svc_vars, cat_vars, up_vars, posit, probes, answered>>

\* app.py lines 663-666, run_flask_app.py lines 32-48: app.run has returned
\* or was left by an exception; the finally block calls stop_backend.
main_finally(in_time) ==
    /\ phase = "unwinding" \/ (phase = "serving" /\ mode = "idle")
    /\ stop_backend_body(in_time)
    /\ ret' = Some([op |-> "stop", value |-> TRUE])
    /\ stop_ran' = TRUE
    /\ phase' = "exited"
    /\ UNCHANGED <<eng_vars, svc_vars, cat_vars, up_vars, posit, probes, answered, mode>>

\* backend_runner.py lines 135-137: what is_backend_ready() returns when it
\* is called in this state (its three reads taken together).
is_backend_ready ==
    backend_ready /\ ~IsNone(backend_thread) /\ Alive(The(backend_thread))

\* ------------------------------------------------------------- RunnerSpec
RunnerInit ==
    /\ posit \in BOOLEAN
    /\ RunnerIdle
    /\ UploadIdle
    /\ fts5 = FALSE
    /\ CatalogIdle
    /\ booted = FALSE
    /\ schema_manager = Nothing
    /\ pc = [r \in Req |-> "idle"]
    /\ req = [r \in Req |-> NoReq]
    /\ began = [r \in Req |-> Nothing]
    /\ resp = [r \in Req |-> Nothing]
    /\ rows = <<>>
    /\ engine_args = Nothing
    /\ answer = Nothing
    /\ pager = Nothing

RunnerNext ==
    \/ start_backend
    \/ start_backend_probe
    \/ start_backend_timeout
    \/ \E b \in Backends : run_backend(b)
    \/ \E b \in Backends : child_ready(b)
    \/ \E b \in Backends : child_exit(b)
    \/ \E in_time \in BOOLEAN : stop_backend(in_time)
    \/ \E in_time \in BOOLEAN : signal_handler(in_time)
    \/ signal_handler_blocks
    \/ \E in_time \in BOOLEAN : main_finally(in_time)

RunnerSpec == RunnerInit /\ [][RunnerNext]_vars

\* The health loop is straight-line code around requests.get(..., timeout=1)
\* and time.sleep(0.5): a round that can be made is made.
FairRunnerSpec ==
    RunnerSpec /\ WF_vars(start_backend_probe) /\ WF_vars(start_backend_timeout)

\* ------------------------------------------------------------------ claims
Returned(op) == ~IsNone(ret) /\ The(ret).op = op

\* C18: start_backend returns True only if the backend it tracks has
\* answered /health with 200 since it was started.
C18_TrueMeansHealthy ==
    (Returned("start") /\ The(ret).value)
       => (~IsNone(Tracked) /\ The(Tracked) \in answered)

C23_ReadyMeansObserved ==
    (posit /\ is_backend_ready)
       => (Alive(The(backend_thread)) /\ The(backend_thread) \in answered)

LiveBackends == {b \in DOMAIN child : Alive(b)}
Spawns == Len(child') > Len(child)

\* C24: with child processes, at most one backend that start_backend
\* spawned is running at any time, and start_backend spawns only when none
\* is running (the tracked one has exited or has been stopped).
C24_OneLiveProcess ==
    /\ [](~posit => Cardinality(LiveBackends) <= 1)
    /\ [][(~posit /\ Spawns) => LiveBackends = {}]_vars

\* C24 witness: a second child process is running, spawned after the first
\* one, which had answered /health, was stopped.
C24_Witness ==
    /\ ~posit /\ Len(child) = 2
    /\ child[1] = "exited" /\ 1 \in answered
    /\ child[2] = "serving" /\ BACKEND_PROCESS = Some(2)

\* C25: with backend threads, at most one server thread is alive at any
\* time: when stop_backend_thread has returned the previous thread has
\* exited, so the next start never runs a second server next to it.
C25_OneLiveThread ==
    posit => Cardinality(LiveBackends) <= 1

\* C20 as amended: the front end exits only after stop_backend has run, and
\* when stop_backend has returned BACKEND_PROCESS names no running child (it
\* is None, or it is a child that had already exited before the call) and no
\* child process that start_backend started is running.
C20_StopLeavesNothingRunning ==
    /\ phase = "exited" => stop_ran
    /\ Returned("stop")
          => /\ IsNone(BACKEND_PROCESS) \/ ~Alive(The(BACKEND_PROCESS))
             /\ ~posit => \A b \in Backends : ~Alive(b)

\* C20 as stated: ... and when stop_backend has returned BACKEND_PROCESS is
\* None.
C20_AsStated ==
    /\ phase = "exited" => stop_ran
    /\ Returned("stop") => IsNone(BACKEND_PROCESS)

\* C20 witness: the front end has exited after stopping a child process
\* that had come up and answered /health.
C20_Witness ==
    /\ phase = "exited" /\ stop_ran /\ ~posit
    /\ IsNone(BACKEND_PROCESS)
    /\ \E b \in DOMAIN child : child[b] = "exited" /\ b \in answered

\* ======================================================================
\* Flask POST /upload_database (app.py lines 482-559): the uploads
\* directory, CURRENT_DB_FILE and the database the backend has open.
\* ======================================================================

\* ---------------------------------------------------------------- inputs
\* An uploaded file name is a stem and an extension; "" is the empty name.
EmptyName == [stem |-> "", ext |-> ""]
FileNames ==
    { EmptyName, [stem |-> "x", ext |-> ".db"], [stem |-> "x", ext |-> ".DB"],
      [stem |-> "x", ext |-> ".txt"], [stem |-> "y", ext |-> ".sqlite3"] }

\* What an uploaded file holds: a database with tables, a database without
\* tables, or something that is not a database.
Contents == {"tables", "empty", "junk"}

\* request.files: no 'database_file' part, or the part.
UploadParts == {Nothing} \cup {Some([name |-> n, content |-> c]) : n \in FileNames, c \in Contents}

\* str.lower() on an extension.
lower(ext) == IF ext = ".DB" THEN ".db" ELSE ext

\* Mutant: every file with a name is taken.
allowed_file_any(name) == name # EmptyName

\* Line 500: file.filename.lower().endswith(('.db', '.sqlite', '.sqlite3')).
allowed_file(name) == lower(name.ext) \in {".db", ".sqlite", ".sqlite3"}

\* Lines 506-510: secure_filename keeps the name; the path is
\* uploads/<stem>_<int(time.time())><ext>.
file_path(name, t) == [stem |-> name.stem, stamp |-> t, ext |-> name.ext]

\* file.save(file_path): the file is written, over an older one of that path.
save(d, path, content) ==
    {f \in d : f.path # path} \cup {[path |-> path, content |-> content]}

\* os.remove(path)
remove(d, path) == {f \in d : f.path # path}

\* os.path.exists(path)
on_disk(d, path) == \E f \in d : f.path = path

\* The backend's POST /switch-database as the front end sees it: no
\* response when the backend cannot be reached, 200 when the file opens as
\* a database, 500 when it does not.
switch_status(backend_up, content) ==
    IF ~backend_up THEN 0 ELSE IF content = "junk" THEN 500 ELSE 200

\* The backend's global after that request (run_app_dynamic.py lines
\* 492-497): the new database on success; on failure the database before,
\* or, when there was none, the manager that did not connect.
backend_after(db, backend_up, path, content) ==
    IF ~backend_up THEN db
    ELSE IF content # "junk" THEN Some([path |-> path, connected |-> TRUE])
    ELSE IF IsNone(db) THEN Some([path |-> path, connected |-> FALSE])
    ELSE db

\* Lines 482-559.
upload_database(file, backend_up, tables_up) ==
    /\ IF IsNone(file)
       THEN /\ upload' = Some([file |-> file, redirect |-> "settings",
                               flash |-> "No file selected", switch_sent |-> FALSE])
            /\ UNCHANGED <<disk, CURRENT_DB_FILE, backend_db>>
       ELSE IF The(file).name = EmptyName
       THEN /\ upload' = Some([file |-> file, redirect |-> "settings",
                               flash |-> "No file selected", switch_sent |-> FALSE])
            /\ UNCHANGED <<disk, CURRENT_DB_FILE, backend_db>>
       ELSE IF ~allowed_file(The(file).name)
       THEN /\ upload' = Some([file |-> file, redirect |-> "settings",
                               flash |-> "Invalid file type", switch_sent |-> FALSE])
            /\ UNCHANGED <<disk, CURRENT_DB_FILE, backend_db>>
       ELSE LET path == file_path(The(file).name, now)
                content == The(file).content
                saved == save(disk, path, content)
                status == switch_status(backend_up, content)
                tables_ok == status = 200 /\ tables_up /\ content = "tables"
            IN  /\ backend_db' = backend_after(backend_db, backend_up, path, content)
                /\ IF tables_ok
                   THEN /\ disk' = IF ~IsNone(CURRENT_DB_FILE)
                                      /\ on_disk(saved, The(CURRENT_DB_FILE))
                                   THEN remove(saved, The(CURRENT_DB_FILE))
                                   ELSE saved
                        /\ CURRENT_DB_FILE' = Some(path)
                        /\ upload' = Some([file |-> file, redirect |-> "settings",
                                           flash |-> "Database loaded",
                                           switch_sent |-> TRUE])
                   ELSE /\ disk' = remove(saved, path)
                        /\ UNCHANGED CURRENT_DB_FILE
                        /\ upload' = Some([file |-> file, redirect |-> "settings",
                                           flash |-> "Failed to load database",
                                           switch_sent |-> TRUE])
    /\ UNCHANGED <<eng_vars, svc_vars, cat_vars, run_vars, now, created>>

\* ----------------------- Flask POST /create_database_from_folder (384-475)
\* request.form.get('db_name'): "" stands for a missing or empty field.
DbNames == {"", "new.db"}

\* request.form.get('folder_path'): "" stands for a missing or empty field,
\* "gone" is a path that does not exist, "docs" a folder with files the
\* backend can process, "bare" a folder without any.
FolderPaths == {"", "gone", "docs", "bare"}

\* os.path.exists(folder_path), line 416.
folder_exists(folder_path) == folder_path \in {"docs", "bare"}

\* The backend's POST /create-database (run_app_dynamic.py lines 356-480):
\* 0 when the backend gives no answer, 500 when the folder holds no
\* supported file (the 400 raised at line 398 is caught at line 478), 200
\* with the path of the new database otherwise.
create_status(backend_up, folder_path) ==
    IF ~backend_up THEN 0 ELSE IF folder_path = "docs" THEN 200 ELSE 500

\* run_app_dynamic.py lines 401-408: the new database is written to
\* ~/Downloads/<dbName>.
db_path(db_name) == [dir |-> "Downloads", name |-> db_name]

\* jsonify of the handler's answer together with the requests that were
\* sent to the backend while it ran.
CreateAnswer(form, status, success, dbPath, sent) ==
    Some([form |-> form, status |-> status, success |-> success,
          dbPath |-> dbPath, sent |-> sent])

\* Lines 384-475. health_up, create_up and switch_up say whether the backend
\* answers the request of that step at all.
create_database_from_folder(db_name, folder_path, health_up, create_up, switch_up) ==
    LET form == [db_name |-> db_name, folder_path |-> folder_path]
        rejected == db_name = "" \/ folder_path = "" \/ ~folder_exists(folder_path)
        status == create_status(create_up, folder_path)
        path == db_path(db_name)
    IN  /\ IF rejected
           THEN /\ created' = CreateAnswer(form, 400, FALSE, Nothing, <<>>)
                /\ UNCHANGED <<disk, backend_db>>
           ELSE IF ~health_up
           THEN /\ created' = CreateAnswer(form, 500, FALSE, Nothing, <<"health">>)
                /\ UNCHANGED <<disk, backend_db>>
           ELSE IF status # 200
           THEN /\ created' = CreateAnswer(form, 500, FALSE, Nothing,
                                           <<"health", "create-database">>)
                /\ UNCHANGED <<disk, backend_db>>
           ELSE /\ disk' = save(disk, path, "tables")
                /\ backend_db' = backend_after(backend_db, switch_up, path, "tables")
                /\ created' = CreateAnswer(form, 200, TRUE, Some(path),
                                           <<"health", "create-database",
                                             "switch-database">>)
        /\ UNCHANGED <<eng_vars, svc_vars, cat_vars, run_vars,
                       now, CURRENT_DB_FILE, upload>>

\* A second passes: int(time.time()) goes up by one.
Tick ==
    /\ now < MaxTime
    /\ now' = now + 1
    /\ UNCHANGED <<eng_vars, svc_vars, cat_vars, run_vars,
                   disk, CURRENT_DB_FILE, backend_db, upload, created>>

\* ------------------------------------------------------------- UploadSpec
UploadInit ==
    /\ UploadIdle
    /\ posit = FALSE
    /\ RunnerIdle
    /\ fts5 = FALSE
    /\ CatalogIdle
    /\ booted = FALSE
    /\ schema_manager = Nothing
    /\ pc = [r \in Req |-> "idle"]
    /\ req = [r \in Req |-> NoReq]
    /\ began = [r \in Req |-> Nothing]
    /\ resp = [r \in Req |-> Nothing]
    /\ rows = <<>>
    /\ engine_args = Nothing
    /\ answer = Nothing
    /\ pager = Nothing

UploadNext ==
    \/ \E file \in UploadParts, backend_up \in BOOLEAN, tables_up \in BOOLEAN :
          upload_database(file, backend_up, tables_up)
    \/ \E db_name \in DbNames, folder_path \in FolderPaths,
          health_up \in BOOLEAN, create_up \in BOOLEAN, switch_up \in BOOLEAN :
          create_database_from_folder(db_name, folder_path, health_up, create_up, switch_up)
    \/ Tick

UploadSpec == UploadInit /\ [][UploadNext]_vars

\* ------------------------------------------------------------------ claims
\* The uploads the claim is about: no file part, an empty file name, or a
\* name whose extension is none of .db, .sqlite, .sqlite3 (compared as the
\* handler compares it, without regard to case).
NotADatabaseUpload(file) ==
    \/ IsNone(file)
    \/ The(file).name = EmptyName
    \/ lower(The(file).name.ext) \notin {".db", ".sqlite", ".sqlite3"}

\* C19: an upload without a file part, with an empty file name or with a
\* name that does not end in .db, .sqlite or .sqlite3 is answered with a
\* redirect to the settings page; no switch request is sent, no file is
\* saved or deleted, and CURRENT_DB_FILE and the backend's database stay as
\* they are.
C19_RejectedUploadChangesNothing ==
    [][(upload' # upload /\ NotADatabaseUpload(The(upload').file))
          => /\ The(upload').redirect = "settings"
             /\ The(upload').switch_sent = FALSE
             /\ disk' = disk
             /\ CURRENT_DB_FILE' = CURRENT_DB_FILE
             /\ backend_db' = backend_db]_vars

\* C19 witness: a file named x.txt has been turned away while an uploaded
\* database was loaded and on disk.
C19_Witness ==
    /\ ~IsNone(upload) /\ ~IsNone(The(upload).file)
    /\ The(The(upload).file).name.ext = ".txt"
    /\ The(upload).redirect = "settings"
    /\ ~IsNone(CURRENT_DB_FILE)
    /\ on_disk(disk, The(CURRENT_DB_FILE))

\* The path the handler gave the file of the upload just answered; the
\* clock does not move during the handler.
UploadedPath == file_path(The(The(upload').file).name, now)

\* An upload has just been answered through the failure branch (lines
\* 546-554).
UploadFailed ==
    /\ upload' # upload
    /\ The(upload').flash = "Failed to load database"

\* C26: when an upload ends in the failure branch (the switch failed, or
\* it answered 200 and the table list was empty or unreadable), the
\* database that was active in the backend before the upload is still the
\* active one, and the backend's active path is not the uploaded file the
\* handler has just deleted.
C26_FailedUploadKeepsDatabase ==
    [][UploadFailed
          => /\ backend_db' = backend_db
             /\ (IsNone(backend_db') \/ The(backend_db').path # UploadedPath)]_vars

\* The last upload answered took the success branch (lines 535-545).
LastUploadLoaded ==
    /\ ~IsNone(upload)
    /\ The(upload).flash = "Database loaded"

\* C27: when the last upload answered took the success branch,
\* CURRENT_DB_FILE names that upload's file, the file is on disk, and it is
\* the database the backend has open; two uploads of one name within one
\* clock second are included.
C27_LoadedUploadIsActive ==
    LastUploadLoaded
        => /\ ~IsNone(CURRENT_DB_FILE)
           /\ The(CURRENT_DB_FILE).stem = The(The(upload).file).name.stem
           /\ The(CURRENT_DB_FILE).ext = The(The(upload).file).name.ext
           /\ on_disk(disk, The(CURRENT_DB_FILE))
           /\ backend_db = Some([path |-> The(CURRENT_DB_FILE), connected |-> TRUE])

\* The Flask export view has answered a request that its backend call did
\* not answer with 200.
FlaskExportFailed ==
    /\ ~IsNone(answer)
    /\ The(answer).op = "Flask export"
    /\ export_kml_response(rows, The(answer).q, The(answer).limit).status # 200

\* C28: when the backend's export fails, the Flask view /export_kml/{table}
\* flashes 'KML export failed' and answers with a redirect to a page of the
\* application; the request never ends in an unhandled error.
C28_FailedExportRedirects ==
    FlaskExportFailed => The(answer).status = 302

\* A /create_database_from_folder request has just been answered.
CreateAnswered == created' # created

\* The requests the handler turns away before it looks at the backend: no
\* database name, no folder path, or a folder that does not exist.
CreateRejected(form) ==
    form.db_name = "" \/ form.folder_path = "" \/ form.folder_path = "gone"

\* C29: when POST /create_database_from_folder answers {success: true,
\* dbPath}, the database the backend has open is the new one, i.e. the
\* switch request went through; and a request without a database name,
\* without a folder path or with a folder that does not exist is answered
\* 400 without any request having been sent to the backend.
C29_CreatedDatabaseIsActive ==
    [][CreateAnswered
          => /\ The(created').success
                  => backend_db' = Some([path |-> The(The(created').dbPath),
                                         connected |-> TRUE])
             /\ CreateRejected(The(created').form)
                  => /\ The(created').status = 400
                     /\ The(created').sent = <<>>
                     /\ backend_db' = backend_db]_vars

\* POST /search/{table} has answered 200.
PostSearchAnswered ==
    /\ ~IsNone(answer)
    /\ The(answer).op = "POST search"
    /\ The(answer).status = 200

\* The windows a client pages with.
PageWindows == {[size |-> s, from_ |-> f] : s \in 1..MaxRows, f \in 0..MaxRows}

\* The envelope of the same request for the window w.
EnvelopeFor(w) ==
    search_table_body(search(rows, The(answer).q, None, None, w.size, w.from_))

\* Two hits of envelopes of one request carry the same _id exactly when
\* they are the same row.
SameIdSameRow(h1, h2) == (h1._id = h2._id) <=> (h1._source.id = h2._source.id)

\* C30: in the envelope of POST /search/{table}, _id identifies the row: a
\* row has the same _id in every (from, size) window and two rows never
\* share one, on the same page or on different pages; the total is the
\* engine's total and the hits come in the engine's order.
C30_IdIdentifiesRow ==
    PostSearchAnswered =>
        LET a == The(answer)
            args == search_table_args(a.size, a.from_)
            result == search(rows, a.q, None, None, args.size, args.from_)
        IN  /\ a.body.total = result.total
            /\ Len(a.body.hits) = Len(result.hits)
            /\ \A k \in DOMAIN a.body.hits : a.body.hits[k]._source = result.hits[k]
            /\ \A w \in PageWindows :
                  \A i \in DOMAIN a.body.hits, j \in DOMAIN EnvelopeFor(w).hits :
                      SameIdSameRow(a.body.hits[i], EnvelopeFor(w).hits[j])

====
